---- MODULE Spec2Model ----
(***************************************************************************)
(* The CES survey contribution of the workbench                            *)
(* (src/vs/workbench/contrib/surveys/browser/ces.contribution.ts):         *)
(* the constructor gating, _prepareSurvey, the prompt runner and its three *)
(* choices, _skipSurvey, the one-shot timer the contribution owns, and the *)
(* persisted keys ces/skipSurvey and ces/remindLaterDate.                  *)
(*                                                                         *)
(* Time is in milliseconds, as Date.now() gives it.  Collaborator promises *)
(* (getTreatment, getTelemetryInfo) resolve; between the suspension of an  *)
(* async function at an await and its resumption any other step may run.   *)
(***************************************************************************)
EXTENDS Integers, Sequences, FiniteSets, TLC

\* ---------------------------------------------------------------- constants
WAIT_TIME_TO_SHOW_SURVEY == 1000 * 60 * 60
MAX_INSTALL_AGE == 1000 * 60 * 60 * 24
REMIND_LATER_DELAY == 1000 * 60 * 60 * 4
SKIP_SURVEY_KEY == "ces/skipSurvey"
REMIND_LATER_DATE_KEY == "ces/remindLaterDate"

\* ------------------------------------------------------------------- bounds
HOUR == 1000 * 60 * 60
\* Date.now() when the first process starts, in hours since the epoch
StartHours == 30
\* how many whole hours the clock may advance
MaxHours == 4
\* how many half-second steps the clock may take inside one hour
MaxSubTicks == 1
\* how many times the process may be restarted
MaxRestarts == 1

StartNow == StartHours * HOUR
SubTick == 500

\* productService.version of the running build, and an older build's version
ProductVersion == "1.55.0"
OldVersion == "1.54.0"
SurveyUrl == "https://survey.example/ces"

\* ------------------------------------------------------- JavaScript numbers
\* A number is either NaN or an integer v.
Num(v) == [nan |-> FALSE, v |-> v]
NaN == [nan |-> TRUE, v |-> 0]
isNaN(a) == a.nan
NumAdd(a, b) == IF a.nan \/ b.nan THEN NaN ELSE Num(a.v + b.v)
NumSub(a, b) == IF a.nan \/ b.nan THEN NaN ELSE Num(a.v - b.v)
\* comparisons with NaN are false
NumLt(a, b) == ~a.nan /\ ~b.nan /\ a.v < b.v
NumGt(a, b) == ~a.nan /\ ~b.nan /\ a.v > b.v

\* ------------------------------------------------------------- date strings
\* A persisted date string: empty, not parseable, or a UTC string, which
\* names a whole second.
EmptyDate == [kind |-> "empty", sec |-> 0]
InvalidDate == [kind |-> "invalid", sec |-> 0]
Utc(sec) == [kind |-> "utc", sec |-> sec]

\* new Date(ms).toUTCString(): the milliseconds are dropped
toUTCString(ms) == Utc(ms \div 1000)
\* new Date(s).getTime()
getTime(s) == IF s.kind = "utc" THEN Num(s.sec * 1000) ELSE NaN
\* truthiness of a string
NonEmptyDate(s) == s.kind # "empty"

\* ------------------------------------------------------ gating computations
\* Variant of NotCandidate: isCandidate === false, which lets undefined through.
NotCandidate_strict(isCandidate) == isCandidate = "false"

\* !isCandidate, for the result of getTreatment<boolean>('CESSurvey')
NotCandidate(isCandidate) == isCandidate \in {"false", "undefined"}

\* Variant of SkipSurveySet: only a skip stored by the running version counts.
SkipSurveySet_sameVersion(skipSurvey) == skipSurvey = ProductVersion

\* if (skipSurvey): a non-empty ces/skipSurvey
SkipSurveySet(skipSurvey) == skipSurvey # ""

\* Variant of NoSurveyUrl: cesSurveyUrl === undefined, which lets '' through.
NoSurveyUrl_undefinedOnly(url) == FALSE

\* if (!productService.cesSurveyUrl)
NoSurveyUrl(url) == url = ""

\* Variant of RemindLaterSet: only a parseable date counts.
RemindLaterSet_parseable(remindLaterDate) == remindLaterDate.kind = "utc"

\* if (remindLaterDate)
RemindLaterSet(remindLaterDate) == NonEmptyDate(remindLaterDate)

\* Variant of TimeToRemind: WAIT_TIME_TO_SHOW_SURVEY in place of REMIND_LATER_DELAY.
TimeToRemind_waitDelay(remindLaterDate, dateNow) ==
    NumSub(NumAdd(getTime(remindLaterDate), Num(WAIT_TIME_TO_SHOW_SURVEY)), Num(dateNow))

\* new Date(remindLaterDate).getTime() + REMIND_LATER_DELAY - Date.now()
TimeToRemind(remindLaterDate, dateNow) ==
    NumSub(NumAdd(getTime(remindLaterDate), Num(REMIND_LATER_DELAY)), Num(dateNow))

\* Variant of WaitFromRemind: timeToRemind is used without the > 0 test.
WaitFromRemind_unguarded(remindLaterDate, dateNow) == TimeToRemind(remindLaterDate, dateNow)

\* Variant of WaitFromRemind: waitTimeToShowSurvey is never assigned.
WaitFromRemind_immediate(remindLaterDate, dateNow) == Num(0)

\* waitTimeToShowSurvey on the remind-later branch
WaitFromRemind(remindLaterDate, dateNow) ==
    LET timeToRemind == TimeToRemind(remindLaterDate, dateNow)
    IN  IF NumGt(timeToRemind, Num(0)) THEN timeToRemind ELSE Num(0)

\* Date.now() - new Date(info.firstSessionDate).getTime()
TimeFromInstall(firstSession, dateNow) == NumSub(Num(dateNow), getTime(firstSession))

\* Variant of IsNewInstall: <= in place of <.
IsNewInstall_inclusive(timeFromInstall) ==
    ~isNaN(timeFromInstall) /\ ~NumGt(timeFromInstall, Num(MAX_INSTALL_AGE))

\* !isNaN(timeFromInstall) && timeFromInstall < MAX_INSTALL_AGE
IsNewInstall(timeFromInstall) ==
    ~isNaN(timeFromInstall) /\ NumLt(timeFromInstall, Num(MAX_INSTALL_AGE))

\* Variant of WaitFromInstall: the time since the install is not subtracted.
WaitFromInstall_full(timeFromInstall) ==
    IF NumLt(timeFromInstall, Num(WAIT_TIME_TO_SHOW_SURVEY))
    THEN Num(WAIT_TIME_TO_SHOW_SURVEY)
    ELSE Num(0)

\* Variant of WaitFromInstall: the subtraction is made without the < test.
WaitFromInstall_unguarded(timeFromInstall) ==
    NumSub(Num(WAIT_TIME_TO_SHOW_SURVEY), timeFromInstall)

\* waitTimeToShowSurvey on the install-age branch
WaitFromInstall(timeFromInstall) ==
    IF NumLt(timeFromInstall, Num(WAIT_TIME_TO_SHOW_SURVEY))
    THEN NumSub(Num(WAIT_TIME_TO_SHOW_SURVEY), timeFromInstall)
    ELSE Num(0)

\* Variant of SkipSurvey: a flag that is already set is left as it is.
SkipSurvey_keepExisting(st) ==
    IF st[SKIP_SURVEY_KEY] # "" THEN st ELSE [st EXCEPT ![SKIP_SURVEY_KEY] = ProductVersion]

\* _skipSurvey(): store(SKIP_SURVEY_KEY, productService.version)
SkipSurvey(st) == [st EXCEPT ![SKIP_SURVEY_KEY] = ProductVersion]

\* Variant of StoreRemindLater: the date is stored only when none is stored yet.
StoreRemindLater_keepFirst(st, dateNow) ==
    IF NonEmptyDate(st[REMIND_LATER_DATE_KEY]) THEN st
    ELSE [st EXCEPT ![REMIND_LATER_DATE_KEY] = toUTCString(dateNow)]

\* store(REMIND_LATER_DATE_KEY, new Date().toUTCString())
StoreRemindLater(st, dateNow) == [st EXCEPT ![REMIND_LATER_DATE_KEY] = toUTCString(dateNow)]

\* ------------------------------------------------------- the one-shot timer
\* The delay setTimeout uses for the delay it is given.
SetTimeoutDelay(delay) == IF delay.nan \/ delay.v < 0 THEN 0 ELSE delay.v

\* RunOnceScheduler.cancel(): clearTimeout(timeoutToken) when one is scheduled
CancelTimers(tm, token) == {t \in tm : t.id # token}

\* RunOnceScheduler.schedule(delay): cancel(), then setTimeout
ScheduleTimers(tm, token, id, delay, dateNow) ==
    CancelTimers(tm, token) \cup
        {[id |-> id, due |-> dateNow + SetTimeoutDelay(delay), delay |-> delay]}

\* Variant of TimersAfterTimeout: setInterval in place of setTimeout.
TimersAfterTimeout_interval(tm, id) == tm

\* A timeout that fired is gone: setTimeout fires once.
TimersAfterTimeout(tm, id) == {t \in tm : t.id # id}

RemoveAt(s, i) == SubSeq(s, 1, i - 1) \o SubSeq(s, i + 1, Len(s))

\* -------------------------------------------------------------------- state
VARIABLES
    now,               \* Date.now()
    language,          \* the display language of the platform
    cesSurveyUrl,      \* productService.cesSurveyUrl ("" when not configured)
    hasTas,            \* whether the optional tasExperimentService is present
    firstSessionDate,  \* getTelemetryInfo().firstSessionDate
    storage,           \* the persisted keys, global scope
    disposed,          \* the contribution was disposed
    runner,            \* the scheduler exists and its runner is not null
    timeoutToken,      \* RunOnceScheduler.timeoutToken, -1 when none
    timers,            \* the pending setTimeout entries
    prepares,          \* the _prepareSurvey calls suspended at an await
    runners,           \* the runner invocations suspended at an await
    prompts,           \* the open notifications
    accepts,           \* pending getTelemetryInfo().then callbacks of Accept
    opened,            \* the URI given to openerService.open last, <<>> when none
    runOps,            \* what this process run has done to its collaborators
    skipAtStart,       \* ces/skipSurvey as it was when the process started
    skipWritten,       \* _skipSurvey ran in this process run
    armCount,          \* schedule() calls of this process run
    fireCount,         \* timeouts that fired in this process run
    promptCount,       \* notificationService.prompt calls of this process run
    prepareCalls,      \* _prepareSurvey calls of this process run
    restarts,          \* process restarts so far
    lastPrepare,       \* the _prepareSurvey call that returned last
    lastChoice         \* the choice clicked last

vars == <<now, language, cesSurveyUrl, hasTas, firstSessionDate, storage, disposed, runner,
          timeoutToken, timers, prepares, runners, prompts, accepts, opened,
          runOps, skipAtStart, skipWritten, armCount, fireCount, promptCount,
          prepareCalls, restarts, lastPrepare, lastChoice>>

env == <<language, cesSurveyUrl, hasTas, firstSessionDate>>

\* --------------------------------------------------------------- the inputs
FirstSessionDates ==
    {InvalidDate,
     Utc((StartNow - 25 * HOUR) \div 1000), Utc((StartNow - 24 * HOUR) \div 1000),
     Utc((StartNow - HOUR) \div 1000), Utc(StartNow \div 1000),
     Utc((StartNow + HOUR) \div 1000)}

RemindLaterDates ==
    {EmptyDate, InvalidDate,
     Utc((StartNow - 5 * HOUR) \div 1000), Utc((StartNow - 4 * HOUR) \div 1000),
     Utc(StartNow \div 1000), Utc((StartNow + HOUR) \div 1000)}

\* what getTreatment<boolean>('CESSurvey') may resolve to; without the service
\* the optional call yields undefined
BoolTreatments == IF hasTas THEN {"true", "false", "undefined"} ELSE {"undefined"}
\* what getTreatment<string>(...) may resolve to
StringTreatments == IF hasTas THEN {"undefined", "treatment text"} ELSE {"undefined"}

DefaultMessage == "Got a moment to help the VS Code team? Please tell us about your experience with VS Code so far."
DefaultButton == "Give Feedback"
\* a ?? b
Coalesce(a, b) == IF a = "undefined" THEN b ELSE a

NoPrepare ==
    [outcome |-> "none", ops |-> <<>>, origin |-> "none", isCandidate |-> "undefined",
     remindLaterDate |-> EmptyDate, timeFromInstall |-> NaN, at |-> 0, wait |-> NaN]
NoChoice ==
    [choice |-> "none", telemetry |-> <<>>, ops |-> <<>>, at |-> 0, callsBefore |-> 0,
     disposed |-> FALSE]

\* ------------------------------------------------------------- construction
\* _prepareSurvey() up to its first await
PrepareCall(tas, origin) ==
    [pc |-> "awaitTreatment", origin |-> origin, remindLaterDate |-> EmptyDate,
     ops |-> IF tas THEN <<"getTreatment:CESSurvey">> ELSE <<>>]

\* The constructor: what exists once it has returned.
Constructed(url, tas, st) ==
    IF NoSurveyUrl(url)
    THEN [runner |-> FALSE, prepares |-> <<>>, prepareCalls |-> 0, runOps |-> {}]
    ELSE IF SkipSurveySet(st[SKIP_SURVEY_KEY])
    THEN [runner |-> FALSE, prepares |-> <<>>, prepareCalls |-> 0,
          runOps |-> {"get:ces/skipSurvey"}]
    ELSE [runner |-> TRUE, prepares |-> <<PrepareCall(tas, "constructor")>>,
          prepareCalls |-> 1,
          runOps |-> {"get:ces/skipSurvey"} \cup
                     (IF tas THEN {"getTreatment:CESSurvey"} ELSE {})]

\* The module is loaded: the contribution is registered, and so constructed
\* when the workbench is restored, only if the language is 'en' (lines 134-137).
Registered(lang, url, tas, st) ==
    IF lang = "en"
    THEN Constructed(url, tas, st)
    ELSE [runner |-> FALSE, prepares |-> <<>>, prepareCalls |-> 0, runOps |-> {}]

Languages == {"en", "fr"}

Init ==
    /\ now = StartNow
    /\ language \in Languages
    /\ cesSurveyUrl \in {"", SurveyUrl}
    /\ hasTas \in BOOLEAN
    /\ firstSessionDate \in FirstSessionDates
    /\ \E skip \in {"", OldVersion}, remind \in RemindLaterDates :
          storage = (SKIP_SURVEY_KEY :> skip) @@ (REMIND_LATER_DATE_KEY :> remind)
    /\ LET c == Registered(language, cesSurveyUrl, hasTas, storage)
       IN  /\ runner = c.runner
           /\ prepares = c.prepares
           /\ runOps = c.runOps
           /\ prepareCalls = c.prepareCalls
    /\ skipAtStart = storage[SKIP_SURVEY_KEY]
    /\ disposed = FALSE
    /\ timeoutToken = -1
    /\ timers = {}
    /\ runners = <<>>
    /\ prompts = <<>>
    /\ accepts = 0
    /\ opened = <<>>
    /\ skipWritten = FALSE
    /\ armCount = 0
    /\ fireCount = 0
    /\ promptCount = 0
    /\ restarts = 0
    /\ lastPrepare = NoPrepare
    /\ lastChoice = NoChoice

\* ----------------------------------------------------------- _prepareSurvey
\* this.promptScheduler.schedule(wait), and the return of call i
ScheduleAndReturn(i, ops, isCandidate, remindLaterDate, timeFromInstall, wait) ==
    /\ timers' = ScheduleTimers(timers, timeoutToken, armCount + 1, wait, now)
    /\ timeoutToken' = armCount + 1
    /\ armCount' = armCount + 1
    /\ prepares' = RemoveAt(prepares, i)
    /\ runOps' = runOps \cup {op : op \in {ops[k] : k \in DOMAIN ops}} \cup {"schedule"}
    /\ lastPrepare' =
          [outcome |-> "armed", ops |-> Append(ops, "schedule"),
           origin |-> prepares[i].origin, isCandidate |-> isCandidate,
           remindLaterDate |-> remindLaterDate, timeFromInstall |-> timeFromInstall,
           at |-> now, wait |-> wait]
    /\ UNCHANGED <<storage, skipWritten>>

\* Variant of SkipAndReturn: the return after _skipSurvey() is missing, so the
\* call goes on to schedule.
SkipAndReturn_noReturn(i, ops, isCandidate, remindLaterDate, timeFromInstall) ==
    /\ storage' = SkipSurvey(storage)
    /\ skipWritten' = TRUE
    /\ timers' = ScheduleTimers(timers, timeoutToken, armCount + 1,
                                WaitFromInstall(timeFromInstall), now)
    /\ timeoutToken' = armCount + 1
    /\ armCount' = armCount + 1
    /\ prepares' = RemoveAt(prepares, i)
    /\ runOps' = runOps \cup {"store:ces/skipSurvey", "schedule"}
    /\ lastPrepare' =
          [outcome |-> "skipped",
           ops |-> ops \o <<"store:ces/skipSurvey", "schedule">>,
           origin |-> prepares[i].origin, isCandidate |-> isCandidate,
           remindLaterDate |-> remindLaterDate, timeFromInstall |-> timeFromInstall,
           at |-> now, wait |-> WaitFromInstall(timeFromInstall)]

\* this._skipSurvey(); return, for call i
SkipAndReturn(i, ops, isCandidate, remindLaterDate, timeFromInstall) ==
    /\ storage' = SkipSurvey(storage)
    /\ skipWritten' = TRUE
    /\ prepares' = RemoveAt(prepares, i)
    /\ runOps' = runOps \cup {op : op \in {ops[k] : k \in DOMAIN ops}}
                        \cup {"store:ces/skipSurvey"}
    /\ lastPrepare' =
          [outcome |-> "skipped", ops |-> Append(ops, "store:ces/skipSurvey"),
           origin |-> prepares[i].origin, isCandidate |-> isCandidate,
           remindLaterDate |-> remindLaterDate, timeFromInstall |-> timeFromInstall,
           at |-> now, wait |-> NaN]
    /\ UNCHANGED <<timers, timeoutToken, armCount>>

\* _prepareSurvey resumes with the CESSurvey treatment (lines 97-111)
PrepareGotTreatment(i, isCandidate) ==
    /\ i \in DOMAIN prepares
    /\ prepares[i].pc = "awaitTreatment"
    /\ isCandidate \in BoolTreatments
    /\ LET ops == prepares[i].ops
           remindLaterDate == storage[REMIND_LATER_DATE_KEY]
           opsRead == Append(ops, "get:ces/remindLaterDate")
       IN  \/ /\ NotCandidate(isCandidate)
              /\ SkipAndReturn(i, ops, isCandidate, EmptyDate, NaN)
           \/ /\ ~NotCandidate(isCandidate)
              /\ RemindLaterSet(remindLaterDate)
              /\ ScheduleAndReturn(i, opsRead, isCandidate, remindLaterDate, NaN,
                                   WaitFromRemind(remindLaterDate, now))
           \/ /\ ~NotCandidate(isCandidate)
              /\ ~RemindLaterSet(remindLaterDate)
              /\ prepares' = [prepares EXCEPT ![i] =
                    [pc |-> "awaitInfo", origin |-> @.origin,
                     remindLaterDate |-> remindLaterDate,
                     ops |-> Append(opsRead, "getTelemetryInfo")]]
              /\ runOps' = runOps \cup {"get:ces/remindLaterDate", "getTelemetryInfo"}
              /\ UNCHANGED <<storage, skipWritten, timers, timeoutToken, armCount,
                             lastPrepare>>
    /\ UNCHANGED <<now, env, disposed, runner, runners, prompts, accepts, opened,
                   skipAtStart, fireCount, promptCount, restarts, prepareCalls, lastChoice>>

\* _prepareSurvey resumes with the telemetry info (lines 111-124)
PrepareGotInfo(i) ==
    /\ i \in DOMAIN prepares
    /\ prepares[i].pc = "awaitInfo"
    /\ LET ops == prepares[i].ops
           timeFromInstall == TimeFromInstall(firstSessionDate, now)
       IN  \/ /\ ~IsNewInstall(timeFromInstall)
              /\ SkipAndReturn(i, ops, "true", prepares[i].remindLaterDate, timeFromInstall)
           \/ /\ IsNewInstall(timeFromInstall)
              /\ ScheduleAndReturn(i, ops, "true", prepares[i].remindLaterDate,
                                   timeFromInstall,
                                   WaitFromInstall(timeFromInstall))
    /\ UNCHANGED <<now, env, disposed, runner, runners, prompts, accepts, opened,
                   skipAtStart, fireCount, promptCount, restarts, prepareCalls, lastChoice>>

\* ---------------------------------------------------------------- the timer
\* RunOnceScheduler.onTimeout, then the runner up to its first await (line 60)
TimerFire(t) ==
    /\ t \in timers
    /\ now >= t.due
    /\ timers' = TimersAfterTimeout(timers, t.id)
    /\ timeoutToken' = -1
    /\ fireCount' = fireCount + 1
    /\ IF runner
       THEN /\ runners' = Append(runners, [pc |-> "awaitMessage", message |-> "undefined"])
            /\ runOps' = runOps \cup (IF hasTas THEN {"getTreatment:CESSurveyMessage"} ELSE {})
       ELSE UNCHANGED <<runners, runOps>>
    /\ UNCHANGED <<now, env, storage, disposed, runner, prepares, prompts, accepts,
                   opened, skipAtStart, skipWritten, armCount, promptCount, restarts, prepareCalls,
                   lastPrepare, lastChoice>>

\* the runner resumes with the CESSurveyMessage treatment (lines 60-61)
RunnerGotMessage(i, treatment) ==
    /\ i \in DOMAIN runners
    /\ runners[i].pc = "awaitMessage"
    /\ treatment \in StringTreatments
    /\ runners' = [runners EXCEPT ![i] =
          [pc |-> "awaitButton", message |-> Coalesce(treatment, DefaultMessage)]]
    /\ runOps' = runOps \cup (IF hasTas THEN {"getTreatment:CESSurveyButton"} ELSE {})
    /\ UNCHANGED <<now, env, storage, disposed, runner, timeoutToken, timers, prepares,
                   prompts, accepts, opened, skipAtStart, skipWritten, armCount, fireCount,
                   promptCount, restarts, prepareCalls, lastPrepare, lastChoice>>

\* Variant of Choices: the prompt offers no way to postpone.
Choices_noRemind(button) == <<button, "Don't Show Again">>

\* the three choices of the prompt, in the order they are given (lines 66-88)
Choices(button) == <<button, "Remind Me later", "Don't Show Again">>

\* the runner resumes with the CESSurveyButton treatment and prompts (lines 61-90)
RunnerGotButton(i, treatment) ==
    /\ i \in DOMAIN runners
    /\ runners[i].pc = "awaitButton"
    /\ treatment \in StringTreatments
    /\ prompts' = Append(prompts,
          [message |-> runners[i].message,
           choices |-> Choices(Coalesce(treatment, DefaultButton)),
           sticky |-> TRUE, at |-> now])
    /\ runners' = RemoveAt(runners, i)
    /\ promptCount' = promptCount + 1
    /\ runOps' = runOps \cup {"prompt"}
    /\ UNCHANGED <<now, env, storage, disposed, runner, timeoutToken, timers, prepares,
                   accepts, opened, skipAtStart, skipWritten, armCount, fireCount, restarts, prepareCalls,
                   lastPrepare, lastChoice>>

\* -------------------------------------------------------------- the choices
\* sendTelemetry(userReaction): publicLog('cesSurvey:popup', { userReaction })
SendTelemetry(userReaction) == <<userReaction>>

\* the tag each choice passes to sendTelemetry (lines 69, 78, 85)
AcceptReaction == "neverShowAgain"
RemindLaterReaction == "remindLater"
NeverAgainReaction == "neverShowAgain"

\* The first choice is clicked (lines 68-74): the notification closes.
ChooseAccept(i) ==
    /\ i \in DOMAIN prompts
    /\ prompts' = RemoveAt(prompts, i)
    /\ accepts' = accepts + 1
    /\ runOps' = runOps \cup {"publicLog", "getTelemetryInfo"}
    /\ lastChoice' = [choice |-> "accept", telemetry |-> SendTelemetry(AcceptReaction),
                      ops |-> <<"publicLog", "getTelemetryInfo">>, at |-> now,
                      callsBefore |-> prepareCalls,
                      disposed |-> disposed]
    /\ UNCHANGED <<now, env, storage, disposed, runner, timeoutToken, timers, prepares,
                   runners, opened, skipAtStart, skipWritten, armCount, fireCount,
                   promptCount, restarts, prepareCalls, lastPrepare>>

\* Variant of ChooseRemindLater: the choice keeps the notification open.
ChooseRemindLater_keepOpen(i) ==
    /\ i \in DOMAIN prompts
    /\ prompts' = prompts
    /\ storage' = StoreRemindLater(storage, now)
    /\ prepares' = Append(prepares, PrepareCall(hasTas, "remindLater"))
    /\ prepareCalls' = prepareCalls + 1
    /\ runOps' = runOps \cup {"publicLog", "store:ces/remindLaterDate"}
                        \cup (IF hasTas THEN {"getTreatment:CESSurvey"} ELSE {})
    /\ lastChoice' = [choice |-> "remindLater",
                      telemetry |-> SendTelemetry(RemindLaterReaction),
                      ops |-> <<"publicLog", "store:ces/remindLaterDate", "_prepareSurvey">>,
                      at |-> now, callsBefore |-> prepareCalls,
                      disposed |-> disposed]
    /\ UNCHANGED <<now, env, disposed, runner, timeoutToken, timers, runners, accepts,
                   opened, skipAtStart, skipWritten, armCount, fireCount, promptCount,
                   restarts, lastPrepare>>

\* "Remind Me later" is clicked (lines 77-81)
ChooseRemindLater(i) ==
    /\ i \in DOMAIN prompts
    /\ prompts' = RemoveAt(prompts, i)
    /\ storage' = StoreRemindLater(storage, now)
    /\ prepares' = Append(prepares, PrepareCall(hasTas, "remindLater"))
    /\ prepareCalls' = prepareCalls + 1
    /\ runOps' = runOps \cup {"publicLog", "store:ces/remindLaterDate"}
                        \cup (IF hasTas THEN {"getTreatment:CESSurvey"} ELSE {})
    /\ lastChoice' = [choice |-> "remindLater",
                      telemetry |-> SendTelemetry(RemindLaterReaction),
                      ops |-> <<"publicLog", "store:ces/remindLaterDate", "_prepareSurvey">>,
                      at |-> now, callsBefore |-> prepareCalls,
                      disposed |-> disposed]
    /\ UNCHANGED <<now, env, disposed, runner, timeoutToken, timers, runners, accepts,
                   opened, skipAtStart, skipWritten, armCount, fireCount, promptCount,
                   restarts, lastPrepare>>

\* "Don't Show Again" is clicked (lines 84-87)
ChooseNeverAgain(i) ==
    /\ i \in DOMAIN prompts
    /\ prompts' = RemoveAt(prompts, i)
    /\ storage' = SkipSurvey(storage)
    /\ skipWritten' = TRUE
    /\ runOps' = runOps \cup {"publicLog", "store:ces/skipSurvey"}
    /\ lastChoice' = [choice |-> "neverShowAgain",
                      telemetry |-> SendTelemetry(NeverAgainReaction),
                      ops |-> <<"publicLog", "store:ces/skipSurvey">>, at |-> now,
                      callsBefore |-> prepareCalls,
                      disposed |-> disposed]
    /\ UNCHANGED <<now, env, disposed, runner, timeoutToken, timers, prepares, runners,
                   accepts, opened, skipAtStart, armCount, fireCount, promptCount,
                   restarts, prepareCalls, lastPrepare>>

\* The notification is closed without a choice: nothing runs.
Dismiss(i) ==
    /\ i \in DOMAIN prompts
    /\ prompts' = RemoveAt(prompts, i)
    /\ UNCHANGED <<now, env, storage, disposed, runner, timeoutToken, timers, prepares,
                   runners, accepts, opened, runOps, skipAtStart, skipWritten, armCount,
                   fireCount, promptCount, restarts, prepareCalls, lastPrepare, lastChoice>>

\* ------------------------------------------------------------ the survey URI
\* Strings that go through encodeURIComponent are sequences of characters.
Platform == <<"l", "i", "n", "u", "x">>
VersionChars == <<"1", ".", "5", "5", ".", "0">>
MachineId == <<"a", "1", "/", "b", " ", "2">>

\* The characters encodeURIComponent leaves as they are: A-Z a-z 0-9 - _ . ! ~ * ' ( )
Unreserved ==
    {"A", "B", "C", "D", "E", "F", "G", "H", "I", "J", "K", "L", "M",
     "N", "O", "P", "Q", "R", "S", "T", "U", "V", "W", "X", "Y", "Z",
     "a", "b", "c", "d", "e", "f", "g", "h", "i", "j", "k", "l", "m",
     "n", "o", "p", "q", "r", "s", "t", "u", "v", "w", "x", "y", "z",
     "0", "1", "2", "3", "4", "5", "6", "7", "8", "9",
     "-", "_", ".", "!", "~", "*", "'", "(", ")"}

\* The printable ASCII characters in code order, U+0020 to U+007E; the strings
\* encoded here (platform, version, machine id) are made of these.  U+0060
\* cannot be written in a string of this language: the name "grave" holds its
\* place.
Ascii ==
    <<" ", "!", "\"", "#", "$", "%", "&", "'", "(", ")", "*", "+", ",", "-", ".", "/",
      "0", "1", "2", "3", "4", "5", "6", "7", "8", "9", ":", ";", "<", "=", ">", "?",
      "@", "A", "B", "C", "D", "E", "F", "G", "H", "I", "J", "K", "L", "M", "N", "O",
      "P", "Q", "R", "S", "T", "U", "V", "W", "X", "Y", "Z", "[", "\\", "]", "^", "_",
      "grave", "a", "b", "c", "d", "e", "f", "g", "h", "i", "j", "k", "l", "m", "n", "o",
      "p", "q", "r", "s", "t", "u", "v", "w", "x", "y", "z", "{", "|", "}", "~">>
CharCode(c) == 31 + (CHOOSE i \in DOMAIN Ascii : Ascii[i] = c)
HexDigits ==
    <<"0", "1", "2", "3", "4", "5", "6", "7", "8", "9", "A", "B", "C", "D", "E", "F">>

\* the UTF-8 percent escape of a character that is not unreserved: for an ASCII
\* character, % and the two upper-case hexadecimal digits of its code
PercentEscape(c) ==
    <<"%", HexDigits[(CharCode(c) \div 16) + 1], HexDigits[(CharCode(c) % 16) + 1]>>

RECURSIVE encodeURIComponent(_)
encodeURIComponent(str) ==
    IF str = <<>> THEN <<>>
    ELSE (IF Head(str) \in Unreserved THEN <<Head(str)>> ELSE PercentEscape(Head(str)))
         \o encodeURIComponent(Tail(str))

\* `${cesSurveyUrl}?o=${...platform}&v=${...version}&m=${...machineId}}` (line 71)
SurveyUri(url, machineId) ==
    <<url, "?o=">> \o encodeURIComponent(Platform)
        \o <<"&v=">> \o encodeURIComponent(VersionChars)
        \o <<"&m=">> \o encodeURIComponent(machineId) \o <<"}">>

\* Variant of AcceptGotInfo: the callback is dropped once the contribution is
\* disposed.
AcceptGotInfo_whenLive ==
    /\ accepts > 0
    /\ ~disposed
    /\ accepts' = accepts - 1
    /\ opened' = SurveyUri(cesSurveyUrl, MachineId)
    /\ storage' = SkipSurvey(storage)
    /\ skipWritten' = TRUE
    /\ runOps' = runOps \cup {"open", "store:ces/skipSurvey"}
    /\ lastChoice' = [lastChoice EXCEPT !.ops = @ \o <<"open", "store:ces/skipSurvey">>]
    /\ UNCHANGED <<now, env, disposed, runner, timeoutToken, timers, prepares, runners,
                   prompts, skipAtStart, armCount, fireCount, promptCount, restarts,
                   prepareCalls, lastPrepare>>

\* getTelemetryInfo() of an Accept resolves (lines 70-73): open, then skip
AcceptGotInfo ==
    /\ accepts > 0
    /\ accepts' = accepts - 1
    /\ opened' = SurveyUri(cesSurveyUrl, MachineId)
    /\ storage' = SkipSurvey(storage)
    /\ skipWritten' = TRUE
    /\ runOps' = runOps \cup {"open", "store:ces/skipSurvey"}
    /\ lastChoice' = [lastChoice EXCEPT !.ops = @ \o <<"open", "store:ces/skipSurvey">>]
    /\ UNCHANGED <<now, env, disposed, runner, timeoutToken, timers, prepares, runners,
                   prompts, skipAtStart, armCount, fireCount, promptCount, restarts, prepareCalls,
                   lastPrepare>>

\* --------------------------------------------------- lifecycle and the clock
\* Disposable.dispose() of a contribution that was constructed: the registered
\* scheduler is disposed (cancel(), runner = null)
Dispose ==
    /\ language = "en"
    /\ ~disposed
    /\ disposed' = TRUE
    /\ timers' = CancelTimers(timers, timeoutToken)
    /\ timeoutToken' = -1
    /\ runner' = FALSE
    /\ UNCHANGED <<now, env, storage, prepares, runners, prompts, accepts, opened,
                   runOps, skipAtStart, skipWritten, armCount, fireCount, promptCount,
                   restarts, prepareCalls, lastPrepare, lastChoice>>

\* The process ends and a new one loads the module: only the persisted keys
\* survive.
Restart ==
    /\ restarts < MaxRestarts
    /\ restarts' = restarts + 1
    /\ LET c == Registered(language, cesSurveyUrl, hasTas, storage)
       IN  /\ runner' = c.runner
           /\ prepares' = c.prepares
           /\ runOps' = c.runOps
           /\ prepareCalls' = c.prepareCalls
    /\ skipAtStart' = storage[SKIP_SURVEY_KEY]
    /\ disposed' = FALSE
    /\ timeoutToken' = -1
    /\ timers' = {}
    /\ runners' = <<>>
    /\ prompts' = <<>>
    /\ accepts' = 0
    /\ opened' = <<>>
    /\ skipWritten' = FALSE
    /\ armCount' = 0
    /\ fireCount' = 0
    /\ promptCount' = 0
    /\ lastPrepare' = NoPrepare
    /\ lastChoice' = NoChoice
    /\ UNCHANGED <<now, env, storage>>

\* Time passes: half a second, or an hour.
Tick(d) ==
    /\ d \in {SubTick, HOUR}
    /\ now + d <= StartNow + MaxHours * HOUR
    /\ d = SubTick => (now % HOUR) + d <= MaxSubTicks * SubTick
    /\ now' = now + d
    /\ UNCHANGED <<env, storage, disposed, runner, timeoutToken, timers, prepares,
                   runners, prompts, accepts, opened, runOps, skipAtStart, skipWritten,
                   armCount, fireCount, promptCount, restarts, prepareCalls, lastPrepare, lastChoice>>

Next ==
    \/ \E i \in DOMAIN prepares, r \in {"true", "false", "undefined"} :
          PrepareGotTreatment(i, r)
    \/ \E i \in DOMAIN prepares : PrepareGotInfo(i)
    \/ \E t \in timers : TimerFire(t)
    \/ \E i \in DOMAIN runners, r \in {"undefined", "treatment text"} :
          RunnerGotMessage(i, r)
    \/ \E i \in DOMAIN runners, r \in {"undefined", "treatment text"} :
          RunnerGotButton(i, r)
    \/ \E i \in DOMAIN prompts : ChooseAccept(i)
    \/ \E i \in DOMAIN prompts : ChooseRemindLater(i)
    \/ \E i \in DOMAIN prompts : ChooseNeverAgain(i)
    \/ \E i \in DOMAIN prompts : Dismiss(i)
    \/ AcceptGotInfo
    \/ Dispose
    \/ Restart
    \/ \E d \in {SubTick, HOUR} : Tick(d)

Spec == Init /\ [][Next]_vars

\* What the host guarantees: a promise that resolves has its continuation run,
\* and a timeout that is due fires.  Nothing obliges the user to answer the
\* prompt, the clock to reach a given time, or the process to go on living.
Fairness ==
    /\ WF_vars(\E i \in DOMAIN prepares, r \in {"true", "false", "undefined"} :
                  PrepareGotTreatment(i, r))
    /\ WF_vars(\E i \in DOMAIN prepares : PrepareGotInfo(i))
    /\ WF_vars(\E t \in timers : TimerFire(t))
    /\ WF_vars(\E i \in DOMAIN runners, r \in {"undefined", "treatment text"} :
                  RunnerGotMessage(i, r))
    /\ WF_vars(\E i \in DOMAIN runners, r \in {"undefined", "treatment text"} :
                  RunnerGotButton(i, r))
    /\ WF_vars(AcceptGotInfo)

\* The installations the liveness properties are checked on: a survey URL, no
\* SkipFlag, an install that is fresh, an hour old or too old, and no
\* remind-later date or one whose delay has run out.
LiveInit ==
    /\ Init
    /\ language = "en"
    /\ cesSurveyUrl = SurveyUrl
    /\ storage[SKIP_SURVEY_KEY] = ""
    /\ firstSessionDate \in {Utc(StartNow \div 1000), Utc((StartNow - HOUR) \div 1000),
                             Utc((StartNow - 25 * HOUR) \div 1000)}
    /\ storage[REMIND_LATER_DATE_KEY] \in {EmptyDate, Utc((StartNow - 4 * HOUR) \div 1000)}

FairSpec == LiveInit /\ [][Next]_vars /\ Fairness

\* ================================================================ properties
Max(a, b) == IF a > b THEN a ELSE b
\* the operations of a returned _prepareSurvey call that touch the store
StoreOps(ops) == SelectSeq(ops, LAMBDA op : op \in {"store:ces/skipSurvey",
                                                    "store:ces/remindLaterDate"})
\* the eligibility lookup a call makes when the experiment service is present
LookupOps == IF hasTas THEN <<"getTreatment:CESSurvey">> ELSE <<>>

\* C1: once _skipSurvey has run in a process run, ces/skipSurvey is non-empty
\* in every later state, no timer is pending, schedule is not called again and
\* no prompt is shown, whatever the gating outcomes, firings and choices.
C1_SkipForecloses ==
    [][/\ skipWritten => storage'[SKIP_SURVEY_KEY] # ""
       /\ skipWritten' => /\ storage'[SKIP_SURVEY_KEY] # ""
                          /\ timers' = {}
                          /\ runners' = <<>>
       /\ (skipWritten /\ skipWritten') => /\ armCount' = armCount
                                           /\ promptCount' = promptCount]_vars

\* A skip written by the gating that Remind Later re-ran, with time gone by since.
C1_Witness ==
    /\ skipWritten
    /\ lastChoice.choice = "remindLater"
    /\ lastPrepare.outcome = "skipped"
    /\ lastPrepare.origin = "remindLater"
    /\ now > lastPrepare.at
    /\ ~disposed

\* C2: at most one timer firing is pending in every state, the pending one is
\* the one the scheduler holds, and the firings never outnumber the armings.
C2_OnePendingFiring ==
    /\ Cardinality(timers) <= 1
    /\ \A t \in timers : t.id = timeoutToken
    /\ fireCount <= armCount

\* The timer armed a second time, by the prepare after Remind Later, and pending.
C2_Witness ==
    /\ armCount = 2
    /\ fireCount = 1
    /\ Cardinality(timers) = 1
    /\ lastPrepare.origin = "remindLater"

\* C3: a prepare call whose eligibility is false or undefined (the experiment
\* service absent included) makes exactly one store write, SkipFlag := version,
\* makes the eligibility lookup at most once, reads neither the remind-later
\* date nor the install info, and does not schedule.
C3_NotEligibleSkips ==
    (lastPrepare.outcome # "none" /\ lastPrepare.isCandidate \in {"false", "undefined"})
        => /\ lastPrepare.outcome = "skipped"
           /\ lastPrepare.ops = LookupOps \o <<"store:ces/skipSurvey">>
           /\ storage[SKIP_SURVEY_KEY] = ProductVersion
           /\ timers = {}
           /\ prepares = <<>>

\* The experiment service is absent and the constructor's prepare has skipped.
C3_Witness ==
    /\ ~hasTas
    /\ lastPrepare.outcome = "skipped"
    /\ lastPrepare.isCandidate = "undefined"
    /\ lastPrepare.ops = <<"store:ces/skipSurvey">>
    /\ armCount = 0

\* C4: a prepare call with eligibility true and no remind-later date, whose
\* firstSessionDate does not parse or lies MAX_INSTALL_AGE or more before the
\* call's Date.now(), persists SkipFlag = version and does not schedule.
C4_OldInstallSkips ==
    (/\ lastPrepare.outcome # "none"
     /\ lastPrepare.isCandidate = "true"
     /\ lastPrepare.remindLaterDate.kind = "empty"
     /\ \/ firstSessionDate.kind # "utc"
        \/ lastPrepare.at - firstSessionDate.sec * 1000 >= MAX_INSTALL_AGE)
        => /\ lastPrepare.outcome = "skipped"
           /\ StoreOps(lastPrepare.ops) = <<"store:ces/skipSurvey">>
           /\ lastPrepare.ops[Len(lastPrepare.ops)] = "store:ces/skipSurvey"
           /\ storage[SKIP_SURVEY_KEY] = ProductVersion
           /\ timers = {}

\* The boundary: the install is exactly MAX_INSTALL_AGE old and was skipped.
C4_Witness ==
    /\ lastPrepare.outcome = "skipped"
    /\ lastPrepare.isCandidate = "true"
    /\ lastPrepare.remindLaterDate.kind = "empty"
    /\ firstSessionDate.kind = "utc"
    /\ lastPrepare.at - firstSessionDate.sec * 1000 = MAX_INSTALL_AGE

\* what a process run has done to the store
StoreRunOps ==
    runOps \cap {"get:ces/skipSurvey", "get:ces/remindLaterDate",
                 "store:ces/skipSurvey", "store:ces/remindLaterDate"}

\* C5: a process that constructs the contribution (the language is 'en') with a
\* survey URL and a non-empty SkipFlag reads the SkipFlag and does nothing else
\* in the whole run: no lookup, no other read, no write, no timer, no prompt;
\* so a skip persisted in one run keeps the runs after it inactive.
C5_SkippedStaysInactive ==
    (language = "en" /\ ~(cesSurveyUrl = "") /\ skipAtStart # "")
        => /\ runOps = {"get:ces/skipSurvey"}
           /\ storage[SKIP_SURVEY_KEY] = skipAtStart
           /\ prepareCalls = 0 /\ prepares = <<>>
           /\ armCount = 0 /\ timers = {}
           /\ promptCount = 0 /\ runners = <<>> /\ prompts = <<>>
           /\ opened = <<>>

\* A run after a restart, the skip having been persisted by the run before it.
C5_Witness ==
    /\ cesSurveyUrl # ""
    /\ restarts = 1
    /\ skipAtStart = ProductVersion
    /\ now > StartNow
    /\ disposed

\* C6: without a survey URL a process run arms no timer, reads and writes no
\* persisted key, makes no eligibility lookup and shows no prompt.
C6_NoUrlInert ==
    cesSurveyUrl = ""
        => /\ runOps = {}
           /\ prepareCalls = 0 /\ prepares = <<>>
           /\ armCount = 0 /\ timers = {}
           /\ promptCount = 0 /\ runners = <<>> /\ prompts = <<>>
           /\ opened = <<>>
           /\ ~skipWritten

\* No survey URL, no SkipFlag, an eligible fresh install, and an hour gone by.
C6_Witness ==
    /\ cesSurveyUrl = ""
    /\ storage[SKIP_SURVEY_KEY] = ""
    /\ hasTas
    /\ firstSessionDate = Utc(StartNow \div 1000)
    /\ now >= StartNow + HOUR
    /\ restarts = 1

\* C7: a prepare call with eligibility true that reads a non-empty remind-later
\* date schedules: it does not ask for the install info and does not skip,
\* however old or unparseable the install date is.
C7_RemindLaterWins ==
    (/\ lastPrepare.outcome # "none"
     /\ lastPrepare.isCandidate = "true"
     /\ lastPrepare.remindLaterDate.kind # "empty")
        => /\ lastPrepare.outcome = "armed"
           /\ lastPrepare.ops = LookupOps \o <<"get:ces/remindLaterDate", "schedule">>
           /\ isNaN(lastPrepare.timeFromInstall)

\* An install older than MAX_INSTALL_AGE, armed from its remind-later date.
C7_Witness ==
    /\ lastPrepare.outcome = "armed"
    /\ lastPrepare.remindLaterDate.kind = "utc"
    /\ firstSessionDate = Utc((StartNow - 25 * HOUR) \div 1000)
    /\ lastPrepare.origin = "constructor"
    /\ timers # {}

\* C8: on the remind-later path with a parseable date the delay given to the
\* timer is max(0, date + REMIND_LATER_DELAY - Date.now()).
C8_RemindLaterDelay ==
    (/\ lastPrepare.outcome = "armed"
     /\ lastPrepare.remindLaterDate.kind = "utc")
        => /\ lastPrepare.wait =
                Num(Max(0, lastPrepare.remindLaterDate.sec * 1000
                             + REMIND_LATER_DELAY - lastPrepare.at))
           /\ \A t \in timers : t.id = armCount => t.delay = lastPrepare.wait

\* The boundary: the date is exactly REMIND_LATER_DELAY before now, the delay 0.
C8_Witness ==
    /\ lastPrepare.outcome = "armed"
    /\ lastPrepare.remindLaterDate.kind = "utc"
    /\ lastPrepare.remindLaterDate.sec * 1000 = lastPrepare.at - REMIND_LATER_DELAY
    /\ lastPrepare.wait = Num(0)
    /\ \E t \in timers : t.delay = Num(0)

\* C9: on the install-age path (eligible, no remind-later date, install younger
\* than MAX_INSTALL_AGE) the delay given to the timer is
\* WAIT_TIME_TO_SHOW_SURVEY - timeFromInstall when that is positive, else 0.
C9_InstallAgeDelay ==
    (/\ lastPrepare.outcome # "none"
     /\ lastPrepare.isCandidate = "true"
     /\ lastPrepare.remindLaterDate.kind = "empty"
     /\ firstSessionDate.kind = "utc"
     /\ lastPrepare.at - firstSessionDate.sec * 1000 < MAX_INSTALL_AGE)
        => LET timeFromInstall == lastPrepare.at - firstSessionDate.sec * 1000
           IN  /\ lastPrepare.outcome = "armed"
               /\ lastPrepare.wait =
                    IF timeFromInstall < WAIT_TIME_TO_SHOW_SURVEY
                    THEN Num(WAIT_TIME_TO_SHOW_SURVEY - timeFromInstall)
                    ELSE Num(0)
               /\ \A t \in timers : t.id = armCount => t.delay = lastPrepare.wait

\* timeFromInstall = 0: the delay is exactly WAIT_TIME_TO_SHOW_SURVEY.
C9_Witness ==
    /\ lastPrepare.outcome = "armed"
    /\ lastPrepare.remindLaterDate.kind = "empty"
    /\ firstSessionDate.kind = "utc"
    /\ lastPrepare.at = firstSessionDate.sec * 1000
    /\ lastPrepare.wait = Num(WAIT_TIME_TO_SHOW_SURVEY)
    /\ \E t \in timers : t.due = lastPrepare.at + WAIT_TIME_TO_SHOW_SURVEY

\* The gating that a Remind Later click starts: one _prepareSurvey call, which
\* looks the eligibility up again and returns armed or skipped.
RemindLaterGatesOnce ==
    /\ prepareCalls = lastChoice.callsBefore + 1
    /\ \/ /\ Len(prepares) = 1
          /\ prepares[1].origin = "remindLater"
          /\ prepares[1].pc = "awaitTreatment"
          /\ prepares[1].ops = LookupOps
       \/ /\ prepares = <<>>
          /\ lastPrepare.origin = "remindLater"
          /\ lastPrepare.at >= lastChoice.at
          /\ SubSeq(lastPrepare.ops, 1, Len(LookupOps)) = LookupOps
          /\ \/ /\ lastPrepare.outcome = "armed"
                /\ lastPrepare.ops[Len(lastPrepare.ops)] = "schedule"
                /\ armCount >= 1
             \/ /\ lastPrepare.outcome = "skipped"
                /\ storage[SKIP_SURVEY_KEY] = ProductVersion

\* C10 as stated: after a Remind Later click the persisted date is the instant
\* of the click, and the click starts the gating exactly once, which ends armed
\* or skipped.
C10_Original ==
    lastChoice.choice = "remindLater"
        => /\ getTime(storage[REMIND_LATER_DATE_KEY]) = Num(lastChoice.at)
           /\ RemindLaterGatesOnce

\* C10 as amended: after a Remind Later click the persisted date is the instant
\* of the click cut to the whole second (the UTC string holds no milliseconds),
\* and the click starts the gating exactly once, which ends armed or skipped.
C10_RemindLaterRegates ==
    lastChoice.choice = "remindLater"
        => /\ getTime(storage[REMIND_LATER_DATE_KEY])
                = Num(lastChoice.at - (lastChoice.at % 1000))
           /\ RemindLaterGatesOnce

\* A click half a second into a second, its gating returned with the timer armed.
C10_Witness ==
    /\ lastChoice.choice = "remindLater"
    /\ lastChoice.at % 1000 # 0
    /\ prepares = <<>>
    /\ lastPrepare.origin = "remindLater"
    /\ lastPrepare.outcome = "armed"
    /\ timers # {}

\* C11: after Accept or Never Show Again the run reaches Skipped (SkipFlag =
\* version): Never Show Again writes it in the click, Accept once the telemetry
\* info has resolved, the URI being opened before the write, and whether or not
\* the contribution is disposed in between.  A run ends when the process does.
C11_ChoiceReachesSkipped ==
    /\ [](lastChoice.choice = "neverShowAgain"
            => /\ storage[SKIP_SURVEY_KEY] = ProductVersion
               /\ lastChoice.ops[Len(lastChoice.ops)] = "store:ces/skipSurvey")
    /\ [](lastChoice.choice = "accept"
            => \/ accepts = 1 /\ lastChoice.ops = <<"publicLog", "getTelemetryInfo">>
               \/ /\ accepts = 0
                  /\ lastChoice.ops = <<"publicLog", "getTelemetryInfo", "open",
                                        "store:ces/skipSurvey">>
                  /\ opened # <<>>
                  /\ storage[SKIP_SURVEY_KEY] = ProductVersion)
    /\ \A n \in 0..MaxRestarts :
          (lastChoice.choice = "accept" /\ accepts > 0 /\ restarts = n)
              ~> \/ restarts > n
                 \/ /\ lastChoice.choice = "accept"
                    /\ storage[SKIP_SURVEY_KEY] = ProductVersion
                    /\ opened # <<>>

\* Accept was clicked, the contribution was disposed after the click, and the
\* telemetry info has not resolved yet.
C11_Witness ==
    /\ lastChoice.choice = "accept"
    /\ ~lastChoice.disposed
    /\ disposed
    /\ accepts > 0
    /\ storage[SKIP_SURVEY_KEY] = ""

\* C12 as stated: disposing leaves no timer pending, and from then on, in that
\* process run, no timer is pending and no prompt is shown.
C12_Original ==
    [][/\ (~disposed /\ disposed') => timers' = {}
       /\ (disposed /\ disposed') => /\ timers' = {}
                                     /\ promptCount' = promptCount]_vars

\* The part of C12 that rests on the runner alone: once disposed, no prompt is
\* shown in that process run.
C12_NoPromptAfterDispose ==
    [][(disposed /\ disposed') => promptCount' = promptCount]_vars

\* The end-to-end case: the constructor's gating found the install eligible,
\* with no remind-later date and firstSessionDate equal to its Date.now().
FreshInstallGated ==
    /\ lastPrepare.origin = "constructor"
    /\ lastPrepare.isCandidate = "true"
    /\ lastPrepare.remindLaterDate.kind = "empty"
    /\ firstSessionDate.kind = "utc"
    /\ lastPrepare.at = firstSessionDate.sec * 1000

\* a prompt that offers the three choices, in their order
ThreeChoices(p) ==
    /\ Len(p.choices) = 3
    /\ p.choices[1] \in {DefaultButton, "treatment text"}
    /\ p.choices[2] = "Remind Me later"
    /\ p.choices[3] = "Don't Show Again"

\* C13: in the end-to-end case the timer is armed with WAIT_TIME_TO_SHOW_SURVEY,
\* and once that time has gone by, the contribution not being disposed and the
\* process living on, a prompt with exactly the three choices is shown.
C13_FreshInstallPrompts ==
    /\ [](FreshInstallGated
            => /\ lastPrepare.outcome = "armed"
               /\ lastPrepare.wait = Num(WAIT_TIME_TO_SHOW_SURVEY)
               /\ \A t \in timers :
                     t.id = 1 => t.due = lastPrepare.at + WAIT_TIME_TO_SHOW_SURVEY)
    /\ \A n \in 0..MaxRestarts :
          (/\ FreshInstallGated /\ restarts = n /\ ~disposed
           /\ \E t \in timers : t.id = 1 /\ now >= t.due)
              ~> \/ disposed
                 \/ restarts > n
                 \/ \E i \in DOMAIN prompts :
                       /\ ThreeChoices(prompts[i])
                       /\ prompts[i].at >= lastPrepare.at + WAIT_TIME_TO_SHOW_SURVEY

\* The end-to-end case with its prompt on screen.
C13_Witness ==
    /\ FreshInstallGated
    /\ ~disposed
    /\ restarts = 0
    /\ promptCount = 1
    /\ Len(prompts) = 1
    /\ ThreeChoices(prompts[1])
    /\ prompts[1].at >= lastPrepare.at + WAIT_TIME_TO_SHOW_SURVEY

\* C14 as stated: the URI opened on Accept is the survey URL followed by
\* ?o=<platform>&v=<version>&m=<machine id>, each value percent-encoded, and
\* nothing else.
C14_Original ==
    opened # <<>>
        => opened = <<cesSurveyUrl, "?o=">> \o encodeURIComponent(Platform)
                        \o <<"&v=">> \o encodeURIComponent(VersionChars)
                        \o <<"&m=">> \o encodeURIComponent(MachineId)

\* C15 as stated: a choice sends exactly one 'cesSurvey:popup' event, before
\* its other effects, tagged with the choice: accept, remindLater,
\* neverShowAgain.
C15_Original ==
    lastChoice.choice # "none"
        => /\ lastChoice.telemetry = <<lastChoice.choice>>
           /\ lastChoice.ops[1] = "publicLog"
           /\ Len(SelectSeq(lastChoice.ops, LAMBDA op : op = "publicLog")) = 1

\* what one call of _skipSurvey leaves, compared across every store
SkipOnceIsSkipTwice ==
    LET once == SkipSurvey(storage)
        twice == SkipSurvey(once)
    IN  /\ twice = once
        /\ once[SKIP_SURVEY_KEY] = ProductVersion
        /\ once[REMIND_LATER_DATE_KEY] = storage[REMIND_LATER_DATE_KEY]
        /\ DOMAIN once = DOMAIN storage
        /\ skipWritten => once = storage

\* C16: _skipSurvey is idempotent: on every state of the store, running it twice
\* gives what running it once gives, SkipFlag = version, with the remind-later
\* date as it was; where it has run, running it again changes nothing; and a
\* step that writes the SkipFlag changes neither the other key nor the timer.
C16_SkipIdempotent ==
    /\ []SkipOnceIsSkipTwice
    /\ [][(skipWritten' /\ storage'[SKIP_SURVEY_KEY] # storage[SKIP_SURVEY_KEY])
            => /\ storage' = SkipSurvey(storage)
               /\ timers' = timers
               /\ timeoutToken' = timeoutToken]_vars

\* _skipSurvey has run on a store that holds a remind-later date.
C16_Witness ==
    /\ skipWritten
    /\ storage[SKIP_SURVEY_KEY] = ProductVersion
    /\ storage[REMIND_LATER_DATE_KEY].kind = "utc"
    /\ lastChoice.choice = "neverShowAgain"
    /\ SkipSurvey(storage) = storage

\* an eligible prepare call that read an unparseable remind-later date
UnparseableRemindGated ==
    /\ lastPrepare.outcome # "none"
    /\ lastPrepare.isCandidate = "true"
    /\ lastPrepare.remindLaterDate.kind = "invalid"

\* C17 as stated: with an unparseable remind-later date the delay given to the
\* timer is NaN.
C17_Original == UnparseableRemindGated => isNaN(lastPrepare.wait)

\* C17 as amended: with an unparseable remind-later date timeToRemind is NaN,
\* NaN > 0 is false, and the delay given to the timer is the number 0.
C17_UnparseableRemindFiresNow ==
    UnparseableRemindGated
        => /\ isNaN(NumSub(NumAdd(getTime(lastPrepare.remindLaterDate),
                                  Num(REMIND_LATER_DELAY)), Num(lastPrepare.at)))
           /\ lastPrepare.outcome = "armed"
           /\ lastPrepare.wait = Num(0)
           /\ \A t \in timers : t.id = armCount => t.due = lastPrepare.at

\* An unparseable remind-later date, the timer armed for now.
C17_Witness ==
    /\ UnparseableRemindGated
    /\ lastPrepare.wait = Num(0)
    /\ \E t \in timers : t.due = lastPrepare.at /\ t.delay = Num(0)

\* C18: a prompt is never shown early: with no remind-later date persisted, not
\* before firstSessionDate + WAIT_TIME_TO_SHOW_SURVEY; with a parseable one
\* persisted, not before that date + REMIND_LATER_DELAY.
C18_NeverEarly ==
    \A i \in DOMAIN prompts :
        LET remindLaterDate == storage[REMIND_LATER_DATE_KEY]
        IN  /\ remindLaterDate.kind = "empty"
                => /\ firstSessionDate.kind = "utc"
                   /\ prompts[i].at >= firstSessionDate.sec * 1000
                                         + WAIT_TIME_TO_SHOW_SURVEY
            /\ remindLaterDate.kind = "utc"
                => prompts[i].at >= remindLaterDate.sec * 1000 + REMIND_LATER_DELAY

\* The prompt that follows a Remind Later, shown the moment its delay ran out.
C18_Witness ==
    /\ lastChoice.choice = "remindLater"
    /\ promptCount = 2
    /\ Len(prompts) = 1
    /\ storage[REMIND_LATER_DATE_KEY].kind = "utc"
    /\ prompts[1].at = storage[REMIND_LATER_DATE_KEY].sec * 1000 + REMIND_LATER_DELAY

\* C19: at most one prompt is open and at most one _prepareSurvey call is in
\* flight; a second or later prompt is up only after a Remind Later whose
\* gating re-armed the timer, which then fired.
C19_OneAtATime ==
    /\ Len(prompts) <= 1
    /\ Len(prepares) <= 1
    /\ promptCount <= fireCount
    /\ (prompts # <<>> /\ promptCount >= 2)
          => /\ lastChoice.choice = "remindLater"
             /\ lastPrepare.origin = "remindLater"
             /\ lastPrepare.outcome = "armed"
             /\ fireCount >= promptCount
             /\ prompts[1].at >= lastChoice.at

\* A second prompt open, and a prepare call in flight after a Remind Later.
C19_Witness ==
    /\ promptCount = 2
    /\ Len(prompts) = 1
    /\ fireCount = 2
    /\ prepares = <<>>

\* the delay of a returned call that armed the timer, on each path
ArmedFromInstall ==
    /\ lastPrepare.outcome = "armed"
    /\ lastPrepare.remindLaterDate.kind = "empty"
    /\ firstSessionDate.kind = "utc"
ArmedFromRemind ==
    /\ lastPrepare.outcome = "armed"
    /\ lastPrepare.remindLaterDate.kind = "utc"

\* C20 as stated: every delay given to the timer is >= 0, at most
\* WAIT_TIME_TO_SHOW_SURVEY on the install-age path and at most
\* REMIND_LATER_DELAY on the remind-later path, for every parseable date.
C20_Original ==
    /\ lastPrepare.outcome = "armed"
          => ~isNaN(lastPrepare.wait) /\ lastPrepare.wait.v >= 0
    /\ ArmedFromInstall => lastPrepare.wait.v <= WAIT_TIME_TO_SHOW_SURVEY
    /\ ArmedFromRemind => lastPrepare.wait.v <= REMIND_LATER_DELAY

\* C20 as amended: every delay is a number >= 0; it is at most the path's
\* constant when the date is not later than Date.now(), and exceeds it by the
\* time the date lies ahead when the date is later than Date.now().
C20_DelayBounds ==
    /\ lastPrepare.outcome = "armed"
          => ~isNaN(lastPrepare.wait) /\ lastPrepare.wait.v >= 0
    /\ ArmedFromInstall
          => LET first == firstSessionDate.sec * 1000
             IN  IF first <= lastPrepare.at
                 THEN lastPrepare.wait.v <= WAIT_TIME_TO_SHOW_SURVEY
                 ELSE lastPrepare.wait.v
                        = WAIT_TIME_TO_SHOW_SURVEY + (first - lastPrepare.at)
    /\ ArmedFromRemind
          => LET remind == lastPrepare.remindLaterDate.sec * 1000
             IN  IF remind <= lastPrepare.at
                 THEN lastPrepare.wait.v <= REMIND_LATER_DELAY
                 ELSE lastPrepare.wait.v = REMIND_LATER_DELAY + (remind - lastPrepare.at)

\* A firstSessionDate later than Date.now(): the delay exceeds
\* WAIT_TIME_TO_SHOW_SURVEY.
C20_Witness ==
    /\ ArmedFromInstall
    /\ firstSessionDate.sec * 1000 > lastPrepare.at
    /\ lastPrepare.wait.v > WAIT_TIME_TO_SHOW_SURVEY

====
